---- MODULE Spec2Model ----
(***************************************************************************)
(* keynest: an encrypted single-file secret store.                         *)
(*                                                                         *)
(* The model covers the keystore engine (src/lib.rs), the crash-safe       *)
(* storage backend (src/storage.rs), the v1 container format               *)
(* (src/format), the secret store (src/store.rs) and the cryptographic     *)
(* primitives (src/crypto), the last as ideal functions over byte          *)
(* sequences.                                                              *)
(***************************************************************************)
EXTENDS Integers, Sequences, FiniteSets, TLC

VARIABLES
    files,   \* the directory of the keystore: existing path -> file bytes
    now,     \* the wall clock: the last reading of Local::now()
    rng,     \* the OS random source: the number of values drawn so far
    sess,    \* per session: the Keynest value (store, key, keystore_file)
    call,    \* per session: the API call in progress or last returned
    pw,      \* per session: password of the latest successful init/open/rekey
    ops,     \* number of API calls begun so far
    faults,  \* number of failures of the environment so far
    overflow_checks  \* the build: TRUE when integer overflow panics (Cargo's
                     \* dev and test profiles), FALSE when it wraps (release)

vars == <<files, now, rng, sess, call, pw, ops, faults, overflow_checks>>

(***************************************************************************)
(* Bounds of the model.                                                    *)
(***************************************************************************)
MaxOps == 3
MaxFaults == 1

(***************************************************************************)
(* Program constants.                                                      *)
(***************************************************************************)
SALT_LEN == 16
NONCE_LEN == 24
KEY_LEN == 32
MAGIC_LEN == 4
VER_LEN == 1
MEM_LEN == 4
TIME_LEN == 4
PAR_LEN == 4
VERSION_V1 == 1
TAG_LEN == 16
MAX_P_COST == 16777215
MIN_M_COST == 8

MAGIC == <<75, 78, 83, 84>>

CURRENT_VERSION == VERSION_V1

HEADER_LEN == MAGIC_LEN + VER_LEN + MEM_LEN + TIME_LEN + PAR_LEN + SALT_LEN + NONCE_LEN

(***************************************************************************)
(* Input domains.                                                          *)
(***************************************************************************)
Sessions == {"A", "B"}

Passwords == {1, 2}

SecretKeys == {1, 2}

SecretValues == {1, 2}

\* The temp names the random suffix may give, in some order.
TmpNames == <<"store.db.tmp.01", "store.db.tmp.02">>

TmpPaths == {TmpNames[i] : i \in DOMAIN TmpNames}

Target == "store.db"

KdfDefault == [mem_cost_kib |-> 65536, time_cost |-> 3, parallelism |-> 1]

\* mem_cost * 2, time_cost + 1, as in rekey_changes_kdf_parameters
KdfUpgraded == [mem_cost_kib |-> 131072, time_cost |-> 4, parallelism |-> 1]

\* passes KdfParams::validate, rejected by the Argon2 parameter constructor
KdfTooManyLanes == [mem_cost_kib |-> 134217728, time_cost |-> 1, parallelism |-> 16777216]

KdfArgs == {KdfDefault, KdfUpgraded, KdfTooManyLanes}

(***************************************************************************)
(* Bytes.                                                                  *)
(***************************************************************************)
RECURSIVE SumBytes(_)
SumBytes(b) == IF b = <<>> THEN 0 ELSE (Head(b) + SumBytes(Tail(b))) % 256

to_be_bytes(n) ==
    <<(n \div 16777216) % 256, (n \div 65536) % 256, (n \div 256) % 256, n % 256>>

to_le_bytes(n) ==
    <<n % 256, (n \div 256) % 256, (n \div 65536) % 256, (n \div 16777216) % 256>>

from_le_bytes(b) == b[1] + 256 * b[2] + 65536 * b[3] + 16777216 * b[4]

Zeros(n) == [i \in 1..n |-> 0]

\* Zeroize::zeroize on a byte buffer
ZeroizeSkipped(buf) == buf

Zeroize(buf) == Zeros(Len(buf))

Ok(v) == [ok |-> TRUE, err |-> "", val |-> v]

Err(e) == [ok |-> FALSE, err |-> e, val |-> <<>>]

(***************************************************************************)
(* crypto/kdf.rs                                                           *)
(***************************************************************************)
\* `8 * self.parallelism` is a u32 product: from this parallelism on it
\* exceeds u32::MAX
Mul8Limit == 536870912

\* a panic unwinding out of the call
Panic(e) == [ok |-> FALSE, err |-> e, val |-> <<>>]

PanicOverflow == "panic: attempt to multiply with overflow"

Panicked(r) == ~r.ok /\ r.err = PanicOverflow

\* The last comparison is against the u32 product: with overflow checks
\* the multiplication panics when the product exceeds u32::MAX, without
\* them the product is reduced modulo 2^32, to 8 * (parallelism % 2^29).
\* (m < 8 * q is written m \div 8 < q, which keeps below 2^31.)
KdfValidate(kdf) ==
    IF kdf.mem_cost_kib < 8 THEN Err("argon2 memory cost too low")
    ELSE IF kdf.time_cost < 1 THEN Err("argon2 time cost must be >= 1")
    ELSE IF kdf.parallelism < 1 THEN Err("argon2 parallelism must be >= 1")
    ELSE IF kdf.parallelism >= Mul8Limit /\ overflow_checks
         THEN Panic(PanicOverflow)
    ELSE IF kdf.mem_cost_kib \div 8 < kdf.parallelism % Mul8Limit
         THEN Err("argon2 memory cost must be at least 8 * parallelism")
    ELSE Ok(kdf)

KdfParamsNew(m, t, p) ==
    KdfValidate([mem_cost_kib |-> m, time_cost |-> t, parallelism |-> p])

\* argon2::Params::new: the library's own limits on the three costs.
Argon2ParamsOk(kdf) ==
    /\ kdf.parallelism <= MAX_P_COST
    /\ kdf.mem_cost_kib >= MIN_M_COST
    /\ kdf.mem_cost_kib >= 8 * kdf.parallelism
    /\ kdf.time_cost >= 1
    /\ kdf.parallelism >= 1

\* Argon2id as an ideal function: deterministic, and one-to-one in the
\* password, every salt byte and every byte of the three costs.
Argon2Hash(password, salt, kdf) ==
    <<password, 255 - password, password>> \o salt \o to_le_bytes(kdf.mem_cost_kib)
        \o to_le_bytes(kdf.time_cost) \o to_le_bytes(kdf.parallelism) \o <<1>>

derive_key(password, salt, kdf) ==
    IF ~KdfValidate(kdf).ok THEN Err("invalid Argon2 parameters")
    ELSE IF ~Argon2ParamsOk(kdf) THEN Err("failed to construct Argon2 params")
    ELSE IF Len(salt) < 8 THEN Err("argon2 key derivation failed")
    ELSE Ok(Argon2Hash(password, salt, kdf))

(***************************************************************************)
(* crypto/aead.rs: XChaCha20-Poly1305 as an ideal AEAD.  The body is the   *)
(* plaintext under a key stream that depends on key and nonce; the tag is  *)
(* a checksum of key, nonce and body that changes whenever one byte of     *)
(* any of them changes.                                                    *)
(***************************************************************************)
KeyStream(seed, i) == (seed + 7 * i) % 256

Seal(key, nonce, plaintext) ==
    LET seed == SumBytes(key) + SumBytes(nonce)
    IN [i \in 1..Len(plaintext) |-> (plaintext[i] + KeyStream(seed, i)) % 256]

Unseal(key, nonce, body) ==
    LET seed == SumBytes(key) + SumBytes(nonce)
    IN [i \in 1..Len(body) |-> (body[i] + 256 - KeyStream(seed, i)) % 256]

Poly1305Tag(key, nonce, body) ==
    <<key[1], SumBytes(SubSeq(key, 4, 3 + SALT_LEN)),
      SumBytes(SubSeq(key, 20, 23)), SumBytes(SubSeq(key, 24, 27)),
      SumBytes(SubSeq(key, 28, 31)), SumBytes(nonce), SumBytes(body),
      Len(body) % 256>> \o Zeros(8)

\* encrypt, given the nonce the random source returned
encrypt(key, nonce, plaintext) ==
    LET body == Seal(key, nonce, plaintext)
    IN body \o Poly1305Tag(key, nonce, body)

decryptTellsApart(key, nonce, ciphertext) ==
    IF Len(ciphertext) < TAG_LEN THEN Err("corrupted data")
    ELSE LET n == Len(ciphertext) - TAG_LEN
             body == SubSeq(ciphertext, 1, n)
             tag == SubSeq(ciphertext, n + 1, n + TAG_LEN)
         IN IF tag = Poly1305Tag(key, nonce, body)
            THEN Ok(Unseal(key, nonce, body))
            ELSE IF tag[1] # key[1] THEN Err("Invalid password")
            ELSE Err("corrupted data")

decryptUnverified(key, nonce, ciphertext) ==
    IF Len(ciphertext) < TAG_LEN THEN Err("Invalid password or corrupted data")
    ELSE Ok(Unseal(key, nonce, SubSeq(ciphertext, 1, Len(ciphertext) - TAG_LEN)))

decrypt(key, nonce, ciphertext) ==
    IF Len(ciphertext) < TAG_LEN THEN Err("Invalid password or corrupted data")
    ELSE LET n == Len(ciphertext) - TAG_LEN
             body == SubSeq(ciphertext, 1, n)
             tag == SubSeq(ciphertext, n + 1, n + TAG_LEN)
         IN IF tag = Poly1305Tag(key, nonce, body)
            THEN Ok(Unseal(key, nonce, body))
            ELSE Err("Invalid password or corrupted data")

(***************************************************************************)
(* format/mod.rs, format/v1.rs                                             *)
(***************************************************************************)
KeystoreFileNewDefaultKdf(kdf, salt, nonce, ciphertext) ==
    [version |-> CURRENT_VERSION,
     kdf |-> [mem_cost_kib |-> 65536, time_cost |-> 3, parallelism |-> 1],
     salt |-> salt, nonce |-> nonce, ciphertext |-> ciphertext]

KeystoreFileNew(kdf, salt, nonce, ciphertext) ==
    [version |-> CURRENT_VERSION, kdf |-> kdf, salt |-> salt, nonce |-> nonce,
     ciphertext |-> ciphertext]

ParseV1CiphertextFromNonce(data) ==
    IF Len(data) < HEADER_LEN THEN Err("file too short for v1")
    ELSE LET o1 == MAGIC_LEN + VER_LEN
             o2 == o1 + MEM_LEN
             o3 == o2 + TIME_LEN
             o4 == o3 + PAR_LEN
             o5 == o4 + SALT_LEN
             o6 == o5 + NONCE_LEN
             kdf == KdfParamsNew(from_le_bytes(SubSeq(data, o1 + 1, o2)),
                                 from_le_bytes(SubSeq(data, o2 + 1, o3)),
                                 from_le_bytes(SubSeq(data, o3 + 1, o4)))
         IN IF ~kdf.ok THEN Err(kdf.err)
            ELSE Ok(KeystoreFileNew(kdf.val, SubSeq(data, o4 + 1, o5),
                                    SubSeq(data, o5 + 1, o6),
                                    SubSeq(data, o6, Len(data))))

ParseV1(data) ==
    IF Len(data) < HEADER_LEN THEN Err("file too short for v1")
    ELSE LET o1 == MAGIC_LEN + VER_LEN
             o2 == o1 + MEM_LEN
             o3 == o2 + TIME_LEN
             o4 == o3 + PAR_LEN
             o5 == o4 + SALT_LEN
             o6 == o5 + NONCE_LEN
             mem_cost == from_le_bytes(SubSeq(data, o1 + 1, o2))
             time_cost == from_le_bytes(SubSeq(data, o2 + 1, o3))
             parallelism == from_le_bytes(SubSeq(data, o3 + 1, o4))
             salt == SubSeq(data, o4 + 1, o5)
             nonce == SubSeq(data, o5 + 1, o6)
             ciphertext == SubSeq(data, o6 + 1, Len(data))
             kdf == KdfParamsNew(mem_cost, time_cost, parallelism)
         IN IF ~kdf.ok THEN Err(kdf.err)
            ELSE Ok(KeystoreFileNew(kdf.val, salt, nonce, ciphertext))

Parse(data) ==
    IF Len(data) < MAGIC_LEN + VER_LEN THEN Err("file too short")
    ELSE IF SubSeq(data, 1, MAGIC_LEN) # MAGIC THEN Err("invalid magic")
    ELSE IF data[MAGIC_LEN + 1] = 1 THEN ParseV1(data)
    ELSE Err("unsupported version")

SerializeV1CostsSwapped(file) ==
    IF file.version # VERSION_V1 THEN Err("wrong version for v1 serializer")
    ELSE IF Len(file.salt) # SALT_LEN THEN Err("invalid salt length for v1")
    ELSE IF Len(file.nonce) # NONCE_LEN THEN Err("invalid nonce length for v1")
    ELSE Ok(MAGIC \o <<VERSION_V1>> \o to_le_bytes(file.kdf.mem_cost_kib)
            \o to_le_bytes(file.kdf.parallelism) \o to_le_bytes(file.kdf.time_cost)
            \o file.salt \o file.nonce \o file.ciphertext)

SerializeV1(file) ==
    IF file.version # VERSION_V1 THEN Err("wrong version for v1 serializer")
    ELSE IF Len(file.salt) # SALT_LEN THEN Err("invalid salt length for v1")
    ELSE IF Len(file.nonce) # NONCE_LEN THEN Err("invalid nonce length for v1")
    ELSE Ok(MAGIC \o <<VERSION_V1>> \o to_le_bytes(file.kdf.mem_cost_kib)
            \o to_le_bytes(file.kdf.time_cost) \o to_le_bytes(file.kdf.parallelism)
            \o file.salt \o file.nonce \o file.ciphertext)

Serialize(file) ==
    IF file.version = 1 THEN SerializeV1(file) ELSE Err("unsupported version")

(***************************************************************************)
(* crypto/header.rs: the header alone, as the library exports it.          *)
(***************************************************************************)
Header_LEN == MAGIC_LEN + VER_LEN + MEM_LEN + TIME_LEN + PAR_LEN + SALT_LEN + NONCE_LEN

HeaderNew(kdf, salt, nonce) ==
    Ok([version |-> VERSION_V1, kdf |-> kdf, salt |-> salt, nonce |-> nonce])

HeaderToBytes(header) ==
    MAGIC \o <<header.version>> \o to_le_bytes(header.kdf.mem_cost_kib)
        \o to_le_bytes(header.kdf.time_cost) \o to_le_bytes(header.kdf.parallelism)
        \o header.salt \o header.nonce

\* the result is the pair of the header and the number of bytes consumed
HeaderFromBytes(data) ==
    IF Len(data) < Header_LEN THEN Err("keynest file too short")
    ELSE IF SubSeq(data, 1, MAGIC_LEN) # MAGIC THEN Err("invalid keynest file")
    ELSE IF data[MAGIC_LEN + 1] # VERSION_V1 THEN Err("unsupported keynest version")
    ELSE LET o1 == MAGIC_LEN + 1
             o2 == o1 + MEM_LEN
             o3 == o2 + TIME_LEN
             o4 == o3 + PAR_LEN
             o5 == o4 + SALT_LEN
             o6 == o5 + NONCE_LEN
             mem_cost_kib == from_le_bytes(SubSeq(data, o1 + 1, o2))
             time_cost == from_le_bytes(SubSeq(data, o2 + 1, o3))
             parallelism == from_le_bytes(SubSeq(data, o3 + 1, o4))
             salt == SubSeq(data, o4 + 1, o5)
             nonce == SubSeq(data, o5 + 1, o6)
             kdf == KdfParamsNew(mem_cost_kib, time_cost, parallelism)
         IN IF ~kdf.ok THEN kdf
            ELSE Ok(<<[version |-> data[MAGIC_LEN + 1], kdf |-> kdf.val,
                       salt |-> salt, nonce |-> nonce], o6>>)

(***************************************************************************)
(* store.rs: the secret map, and its plaintext form (serde_json).          *)
(***************************************************************************)
NoSecrets == [k \in {} |-> 0]

SecretEntryNew(key, value, t) == [key |-> key, value |-> value, updated |-> t]

StoreNew(t) == [secrets |-> NoSecrets, creation_date |-> t]

StoreContains(store, key) == key \in DOMAIN store.secrets

StoreGet(store, key) ==
    IF key \in DOMAIN store.secrets THEN <<store.secrets[key].value>> ELSE <<>>

\* error.rs: StoreError::KeyAlreadyExists(key), StoreError::KeyNotFound(key)
StoreError(variant, key) == [ok |-> FALSE, err |-> variant, val |-> <<key>>]

\* Each of the three mutators returns the result and the store afterwards.
StoreSetOverwrites(store, key, value, t) ==
    [res |-> Ok(<<>>),
     store |-> [store EXCEPT !.secrets =
         [k \in DOMAIN store.secrets \cup {key} |->
             IF k = key THEN SecretEntryNew(key, value, t) ELSE store.secrets[k]]]]

StoreSet(store, key, value, t) ==
    IF StoreContains(store, key)
    THEN [res |-> StoreError("KeyAlreadyExists", key), store |-> store]
    ELSE [res |-> Ok(<<>>),
          store |-> [store EXCEPT !.secrets =
              [k \in DOMAIN store.secrets \cup {key} |->
                  IF k = key THEN SecretEntryNew(key, value, t) ELSE store.secrets[k]]]]

StoreRemoveKeepsEntry(store, key) ==
    IF StoreContains(store, key)
    THEN [res |-> Ok(<<>>), store |-> store]
    ELSE [res |-> StoreError("KeyNotFound", key), store |-> store]

StoreRemove(store, key) ==
    IF StoreContains(store, key)
    THEN [res |-> Ok(<<>>),
          store |-> [store EXCEPT !.secrets =
              [k \in DOMAIN store.secrets \ {key} |-> store.secrets[k]]]]
    ELSE [res |-> StoreError("KeyNotFound", key), store |-> store]

StoreUpdateUpserts(store, key, value, t) ==
    [res |-> Ok(<<>>),
     store |-> [store EXCEPT !.secrets =
         [k \in DOMAIN store.secrets \cup {key} |->
             IF k = key THEN SecretEntryNew(key, value, t) ELSE store.secrets[k]]]]

StoreUpdateRestamps(store, key, value, t) ==
    IF StoreContains(store, key)
    THEN [res |-> Ok(<<>>),
          store |-> [store EXCEPT !.secrets[key].value = value,
                                  !.secrets[key].updated = t,
                                  !.creation_date = t]]
    ELSE [res |-> StoreError("KeyNotFound", key), store |-> store]

StoreUpdate(store, key, value, t) ==
    IF StoreContains(store, key)
    THEN [res |-> Ok(<<>>),
          store |-> [store EXCEPT !.secrets[key].value = value,
                                  !.secrets[key].updated = t]]
    ELSE [res |-> StoreError("KeyNotFound", key), store |-> store]

\* Store::keys: the keys of the map, in the iteration order of the HashMap
StoreKeys(store) ==
    {q \in [1..Cardinality(DOMAIN store.secrets) -> DOMAIN store.secrets] :
        \A i, j \in DOMAIN q : q[i] = q[j] => i = j}

\* serde_json::to_vec: the creation date, the number of entries, then each
\* entry as map key, key, value, updated (entries in key order).
RECURSIVE EntriesToVec(_, _)
EntriesToVec(secrets, left) ==
    IF left = {} THEN <<>>
    ELSE LET k == CHOOSE x \in left : \A y \in left : x <= y
         IN <<k, secrets[k].key, secrets[k].value, secrets[k].updated>>
                \o EntriesToVec(secrets, left \ {k})

ToVec(store) ==
    <<store.creation_date, Cardinality(DOMAIN store.secrets)>>
        \o EntriesToVec(store.secrets, DOMAIN store.secrets)

\* serde_json::from_slice: fails on anything that is not the form above.
FromSlice(bytes) ==
    IF Len(bytes) < 2 \/ Len(bytes) # 2 + 4 * bytes[2]
    THEN Err("failed to deserialize keystore")
    ELSE LET n == bytes[2]
             keyAt(i) == bytes[4 * i - 1]
             keys == {keyAt(i) : i \in 1..n}
             at(k) == CHOOSE i \in 1..n : keyAt(i) = k
         IN IF Cardinality(keys) # n THEN Err("failed to deserialize keystore")
            ELSE Ok([secrets |-> [k \in keys |->
                        [key |-> bytes[4 * at(k)], value |-> bytes[4 * at(k) + 1],
                         updated |-> bytes[4 * at(k) + 2]]],
                     creation_date |-> bytes[1]])

(***************************************************************************)
(* lib.rs: what open computes from the file bytes and a password.          *)
(***************************************************************************)
NoKeystoreFile == KeystoreFileNew(KdfDefault, <<>>, <<>>, <<>>)

\* The Keynest value; with it, the nonces of the encryptions done so far
\* under its key (the one of the header it was built from is the first).
NoSession ==
    [status |-> "none", store |-> StoreNew(0), key |-> <<>>,
     keystore_file |-> NoKeystoreFile, nonces |-> <<>>]

OpenSession(store, key, keystore_file) ==
    [status |-> "open", store |-> store, key |-> key, keystore_file |-> keystore_file,
     nonces |-> <<keystore_file.nonce>>]

\* open_with_storage once the file is loaded: parse, derive, decrypt,
\* deserialize; the error, or the session value.
OpenLoaded(data, password) ==
    LET file == Parse(data)
    IN IF ~file.ok THEN Err(file.err)
       ELSE LET key == derive_key(password, file.val.salt, file.val.kdf)
            IN IF ~key.ok THEN Err("unable to derive encryption key")
               ELSE LET plaintext == decrypt(key.val, file.val.nonce,
                                             file.val.ciphertext)
                    IN IF ~plaintext.ok THEN Err(plaintext.err)
                       ELSE LET store == FromSlice(plaintext.val)
                            IN IF ~store.ok THEN Err(store.err)
                               ELSE Ok(OpenSession(store.val, key.val, file.val))

\* the local `key` of open_with_storage: the bytes it holds once derived
OpenDerivedKey(data, password) ==
    LET file == Parse(data)
    IN IF ~file.ok THEN <<>>
       ELSE LET key == derive_key(password, file.val.salt, file.val.kdf)
            IN IF key.ok THEN key.val ELSE <<>>

\* open_with_storage on a directory f
OpenWithStorageLoadsUnchecked(f, password) ==
    IF Target \notin DOMAIN f THEN Err("No such file or directory")
    ELSE OpenLoaded(f[Target], password)

OpenWithStorage(f, password) ==
    IF Target \notin DOMAIN f THEN Err("keynest store does not exist")
    ELSE OpenLoaded(f[Target], password)

(***************************************************************************)
(* The file system: one directory, a function from the paths that exist    *)
(* to their bytes.                                                         *)
(***************************************************************************)
Exists(f, p) == p \in DOMAIN f

Put(f, p, bytes) == [q \in DOMAIN f \cup {p} |-> IF q = p THEN bytes ELSE f[q]]

Del(f, p) == [q \in DOMAIN f \ {p} |-> f[q]]

\* rename(2): the destination is replaced in one step
Rename(f, from, to) == Put(Del(f, from), to, f[from])

\* the file at p reads as bytes
Holds(f, p, bytes) == Exists(f, p) /\ f[p] = bytes

\* Storage::load
Load(f) == IF Exists(f, Target) THEN Ok(f[Target]) ELSE Err("NotFound")

(***************************************************************************)
(* Outcomes of the fallible system calls.                                  *)
(***************************************************************************)
\* getrandom::fill of n bytes as the d-th draw from now: a value never
\* drawn before (no two of its bytes alike), or the failure of the random
\* source.
RandomAt(drawn, n, d) == [i \in 1..n |-> (drawn + d + 5 * i) % 256]

Random(n, d) == RandomAt(rng, n, d)

RandomUnavailable == "OS random generator unavailable"

SaltOutcomes == {Ok(Random(SALT_LEN, 1)), Err(RandomUnavailable)}

NonceOutcomes == {Ok(Random(NONCE_LEN, 2)), Err(RandomUnavailable)}

\* The environment fails once more: an I/O error, no random bytes, or the
\* stop of the process.
Fault == faults < MaxFaults /\ faults' = faults + 1

NoFault == faults' = faults

\* Local::now(): a reading later than the last one
Clock == now + 1

(***************************************************************************)
(* The call frame of a session.                                            *)
(***************************************************************************)
IdleCall ==
    [op |-> "none", pc |-> "idle", res |-> "none", err |-> "", val |-> <<>>,
     tmp |-> "", data |-> <<>>, preExists |-> FALSE, pre |-> <<>>,
     steps |-> <<>>, next |-> NoSession, snap |-> NoSession,
     password |-> 0, kdf |-> KdfDefault, oldpw |-> 0, derived |-> <<>>]

\* A call that ran to its return without touching the storage.
Returned(op, snap, result) ==
    [IdleCall EXCEPT !.op = op, !.pc = "done", !.snap = snap,
                     !.res = IF result.ok THEN "ok" ELSE "err",
                     !.err = result.err, !.val = result.val]

\* A call that has computed the file to write and enters Storage::save.
Saving(op, snap, next, data, password, kdf, oldpw) ==
    [IdleCall EXCEPT !.op = op, !.pc = "create", !.snap = snap, !.next = next,
                     !.data = data, !.password = password, !.kdf = kdf,
                     !.oldpw = oldpw,
                     !.preExists = Exists(files, Target),
                     !.pre = IF Exists(files, Target) THEN files[Target] ELSE <<>>]

InStorageSave(c) == c.pc \in {"create", "write", "sync", "replace", "syncdir"}

AtRest(c) == c.pc \in {"idle", "done"}

Init ==
    /\ files = [p \in {} |-> <<>>]
    /\ now = 0
    /\ rng = 0
    /\ sess = [s \in Sessions |-> NoSession]
    /\ call = [s \in Sessions |-> IdleCall]
    /\ pw = [s \in Sessions |-> 0]
    /\ ops = 0
    /\ faults = 0
    /\ overflow_checks \in BOOLEAN

(***************************************************************************)
(* lib.rs: the in-memory part of init, save and rekey, up to the call of   *)
(* Storage::save.  Each returns the result (the file bytes to write, or    *)
(* the error), the session as the in-memory part leaves it, and the        *)
(* session to hold once the file is written.                               *)
(***************************************************************************)
Prepared(res, session, next) ==
    [res |-> res, sess |-> session, next |-> next, derived |-> <<>>]

\* the key derived by the call is in its local buffer
Derived(prep, key) == [prep EXCEPT !.derived = key]

KeynestInit(password, kdf, t, saltR, nonceR) ==
    IF ~saltR.ok THEN Prepared(Err(saltR.err), NoSession, NoSession)
    ELSE LET key == derive_key(password, saltR.val, kdf)
         IN IF ~key.ok
            THEN Prepared(Err("failed to derive encryption key"), NoSession, NoSession)
            ELSE IF ~nonceR.ok
                 THEN Derived(Prepared(Err(nonceR.err), NoSession, NoSession), key.val)
            ELSE LET store == StoreNew(t)
                     ciphertext == encrypt(key.val, nonceR.val, ToVec(store))
                     keystore_file ==
                         KeystoreFileNew(kdf, saltR.val, nonceR.val, ciphertext)
                 IN Derived(Prepared(Serialize(keystore_file), NoSession,
                                     OpenSession(store, key.val, keystore_file)),
                            key.val)

\* the nonce save encrypts with: the one encrypt has just drawn
SaveNonceFromHeader(session, nonce) == session.keystore_file.nonce

SaveNonce(session, nonce) == nonce

KeynestSaveFreshSalt(session, nonceR) ==
    IF ~nonceR.ok THEN Prepared(Err(nonceR.err), session, session)
    ELSE LET ciphertext == encrypt(session.key, nonceR.val, ToVec(session.store))
             keystore_file ==
                 KeystoreFileNew(session.keystore_file.kdf, Random(SALT_LEN, 1),
                                 nonceR.val, ciphertext)
             assigned == [session EXCEPT !.keystore_file = keystore_file,
                                         !.nonces = Append(@, nonceR.val)]
         IN Prepared(Serialize(keystore_file), assigned, assigned)

KeynestSave(session, nonceR) ==
    IF ~nonceR.ok THEN Prepared(Err(nonceR.err), session, session)
    ELSE LET ciphertext == encrypt(session.key, SaveNonce(session, nonceR.val),
                                   ToVec(session.store))
             keystore_file ==
                 KeystoreFileNew(session.keystore_file.kdf, session.keystore_file.salt,
                                 SaveNonce(session, nonceR.val), ciphertext)
             assigned == [session EXCEPT !.keystore_file = keystore_file,
                                         !.nonces = Append(@, SaveNonce(session, nonceR.val))]
         IN Prepared(Serialize(keystore_file), assigned, assigned)

\* the key rekey encrypts under, the costs and the salt it writes to the header
RekeyCipherKeyOld(session, new_key) == session.key

RekeyCipherKey(session, new_key) == new_key

RekeyHeaderKdfOld(session, new_kdf) == session.keystore_file.kdf

RekeyHeaderKdf(session, new_kdf) == new_kdf

RekeyHeaderSalt(session, new_salt) == new_salt

KeynestRekeyOfLoadedStore(session, new_password, new_kdf, saltR, nonceR) ==
    LET plaintext == decrypt(session.key, session.keystore_file.nonce,
                             session.keystore_file.ciphertext)
        loaded == IF plaintext.ok /\ FromSlice(plaintext.val).ok
                  THEN FromSlice(plaintext.val).val ELSE session.store
    IN IF ~saltR.ok THEN Prepared(Err(saltR.err), session, session)
       ELSE LET new_key == derive_key(new_password, saltR.val, new_kdf)
            IN IF ~new_key.ok
               THEN Prepared(Err("failed to derive new enryption key"),
                             session, session)
               ELSE IF ~nonceR.ok
               THEN Derived(Prepared(Err(nonceR.err), session, session), new_key.val)
               ELSE LET ciphertext == encrypt(RekeyCipherKey(session, new_key.val),
                                              nonceR.val, ToVec(loaded))
                        keystore_file ==
                            KeystoreFileNew(RekeyHeaderKdf(session, new_kdf),
                                            RekeyHeaderSalt(session, saltR.val),
                                            nonceR.val, ciphertext)
                        assigned == [session EXCEPT !.keystore_file = keystore_file]
                    IN Derived(Prepared(Serialize(keystore_file), assigned,
                                        [assigned EXCEPT !.key = new_key.val,
                                                         !.nonces = <<nonceR.val>>]),
                               new_key.val)

KeynestRekey(session, new_password, new_kdf, saltR, nonceR) ==
    IF ~saltR.ok THEN Prepared(Err(saltR.err), session, session)
    ELSE LET new_key == derive_key(new_password, saltR.val, new_kdf)
         IN IF ~new_key.ok
            THEN Prepared(Err("failed to derive new enryption key"), session, session)
            ELSE IF ~nonceR.ok
                 THEN Derived(Prepared(Err(nonceR.err), session, session), new_key.val)
            ELSE LET ciphertext == encrypt(RekeyCipherKey(session, new_key.val),
                                           nonceR.val, ToVec(session.store))
                     keystore_file ==
                         KeystoreFileNew(RekeyHeaderKdf(session, new_kdf),
                                         RekeyHeaderSalt(session, saltR.val),
                                         nonceR.val, ciphertext)
                     assigned == [session EXCEPT !.keystore_file = keystore_file]
                 IN Derived(Prepared(Serialize(keystore_file), assigned,
                                     [assigned EXCEPT !.key = new_key.val,
                                                      !.nonces = <<nonceR.val>>]),
                            new_key.val)

(***************************************************************************)
(* The API calls.  A call of a running session begins when the previous    *)
(* one has returned; init and open build a session in a free slot.         *)
(***************************************************************************)
CanCall(s) == sess[s].status = "open" /\ AtRest(call[s]) /\ ops < MaxOps

CanConstruct(s) == sess[s].status # "open" /\ ~InStorageSave(call[s]) /\ ops < MaxOps

\* Enter Storage::save with the prepared file, or return the error.
Begin(s, op, prep, password, kdf) ==
    /\ sess' = [sess EXCEPT ![s] = prep.sess]
    /\ call' = [call EXCEPT ![s] =
           IF prep.res.ok
           THEN [Saving(op, sess[s], prep.next, prep.res.val, password, kdf, pw[s])
                    EXCEPT !.derived = prep.derived]
           ELSE [Returned(op, sess[s], prep.res)
                    EXCEPT !.password = password, !.kdf = kdf, !.oldpw = pw[s],
                           !.derived = prep.derived]]
    /\ ops' = ops + 1
    /\ rng' = rng + 2
    /\ IF prep.res.err = RandomUnavailable THEN Fault ELSE NoFault
    /\ UNCHANGED <<files, pw>>

\* init: `if storage.exists() { bail!(..) }`
InitRefusedNever(f) == FALSE

InitRefused(f) == Exists(f, Target)

InitCall(s, password, kdf) ==
    /\ CanConstruct(s)
    /\ UNCHANGED overflow_checks
    /\ IF InitRefused(files)
       THEN /\ call' = [call EXCEPT ![s] =
                   Returned("init", NoSession, Err("keynest store already exists"))]
            /\ sess' = [sess EXCEPT ![s] = NoSession]
            /\ ops' = ops + 1
            /\ UNCHANGED <<files, now, rng, pw, faults>>
       ELSE \E saltR \in SaltOutcomes, nonceR \in NonceOutcomes :
                /\ now' = Clock
                /\ Begin(s, "init", KeynestInit(password, kdf, Clock, saltR, nonceR),
                         password, kdf)

OpenCall(s, password) ==
    /\ CanConstruct(s)
    /\ UNCHANGED overflow_checks
    /\ LET r == OpenWithStorage(files, password)
       IN /\ sess' = [sess EXCEPT ![s] = IF r.ok THEN r.val ELSE NoSession]
          /\ call' = [call EXCEPT ![s] =
                 [Returned("open", NoSession, r) EXCEPT
                     !.val = <<>>, !.password = password,
                     !.derived = IF Exists(files, Target)
                                 THEN OpenDerivedKey(files[Target], password)
                                 ELSE <<>>]]
          /\ pw' = [pw EXCEPT ![s] = IF r.ok THEN password ELSE 0]
    /\ ops' = ops + 1
    /\ UNCHANGED <<files, now, rng, faults>>

\* set, update and remove: the result and the store afterwards
Mutate(s, op, r) ==
    /\ sess' = [sess EXCEPT ![s].store = r.store]
    /\ call' = [call EXCEPT ![s] = Returned(op, NoSession, r.res)]
    /\ ops' = ops + 1
    /\ UNCHANGED <<files, rng, pw, faults>>

SetCallWritesThrough(s, key, value) ==
    /\ CanCall(s)
    /\ UNCHANGED overflow_checks
    /\ now' = IF StoreContains(sess[s].store, key) THEN now ELSE Clock
    /\ sess' = [sess EXCEPT ![s].store =
           StoreSet(sess[s].store, key, value, Clock).store]
    /\ call' = [call EXCEPT ![s] =
           Returned("set", NoSession, StoreSet(sess[s].store, key, value, Clock).res)]
    /\ files' = Put(files, Target, KeynestSave(sess'[s], Ok(Random(NONCE_LEN, 2))).res.val)
    /\ ops' = ops + 1
    /\ UNCHANGED <<rng, pw, faults>>

SetCall(s, key, value) ==
    /\ CanCall(s)
    /\ UNCHANGED overflow_checks
    /\ now' = IF StoreContains(sess[s].store, key) THEN now ELSE Clock
    /\ Mutate(s, "set", StoreSet(sess[s].store, key, value, Clock))

UpdateCall(s, key, value) ==
    /\ CanCall(s)
    /\ UNCHANGED overflow_checks
    /\ now' = IF StoreContains(sess[s].store, key) THEN Clock ELSE now
    /\ Mutate(s, "update", StoreUpdate(sess[s].store, key, value, Clock))

RemoveCall(s, key) ==
    /\ CanCall(s)
    /\ UNCHANGED overflow_checks
    /\ now' = now
    /\ Mutate(s, "remove", StoreRemove(sess[s].store, key))

GetCall(s, key) ==
    /\ CanCall(s)
    /\ UNCHANGED overflow_checks
    /\ call' = [call EXCEPT ![s] =
           Returned("get", NoSession, Ok(StoreGet(sess[s].store, key)))]
    /\ ops' = ops + 1
    /\ UNCHANGED <<files, now, rng, sess, pw, faults>>

ListCall(s) ==
    /\ CanCall(s)
    /\ UNCHANGED overflow_checks
    /\ \E keys \in StoreKeys(sess[s].store) :
           call' = [call EXCEPT ![s] = Returned("list", NoSession, Ok(keys))]
    /\ ops' = ops + 1
    /\ UNCHANGED <<files, now, rng, sess, pw, faults>>

SaveCall(s) ==
    /\ CanCall(s)
    /\ UNCHANGED overflow_checks
    /\ \E nonceR \in NonceOutcomes :
           Begin(s, "save", KeynestSave(sess[s], nonceR), pw[s],
                 sess[s].keystore_file.kdf)
    /\ now' = now

RekeyCall(s, new_password, new_kdf) ==
    /\ CanCall(s)
    /\ UNCHANGED overflow_checks
    /\ \E saltR \in SaltOutcomes, nonceR \in NonceOutcomes :
           Begin(s, "rekey", KeynestRekey(sess[s], new_password, new_kdf, saltR, nonceR),
                 new_password, new_kdf)
    /\ now' = now

(***************************************************************************)
(* storage.rs: Storage::save, one action per system call.  A failing       *)
(* system call makes save, and with it the init, save or rekey that        *)
(* called it, return the error.                                            *)
(***************************************************************************)
\* Storage::save returns: the caller finishes (init builds the session,
\* rekey swaps the key) or propagates the error.
Finish(s, result, done) ==
    /\ call' = [call EXCEPT ![s].pc = "done",
                            ![s].res = IF result.ok THEN "ok" ELSE "err",
                            ![s].err = result.err,
                            ![s].steps = call[s].steps \o done]
    /\ sess' = [sess EXCEPT ![s] = IF result.ok THEN call[s].next ELSE sess[s]]
    /\ pw' = [pw EXCEPT ![s] =
           IF result.ok /\ call[s].op \in {"init", "rekey"}
           THEN call[s].password ELSE pw[s]]

Step(s, pc, done) ==
    /\ call' = [call EXCEPT ![s].pc = pc, ![s].steps = Append(call[s].steps, done)]
    /\ UNCHANGED <<sess, pw>>

\* the path the buffer is written to, and how much of it a short write leaves
WritePathInPlace(c) == Target

WritePath(c) == c.tmp

PartialLen(data) == Len(data) \div 2

\* random_tmp_path: a name that is in the directory already, or one that is
\* not; which unused name it is makes no difference, so the first one stands
\* for all of them.
RandomTmpPaths(f) ==
    (TmpPaths \cap DOMAIN f) \cup
        {TmpNames[i] : i \in {j \in DOMAIN TmpNames :
            /\ TmpNames[j] \notin DOMAIN f
            /\ \A k \in 1..(j - 1) : TmpNames[k] \in DOMAIN f}}

\* OpenOptions::create_new refuses a path that exists
TmpTakenIgnored(f, p) == FALSE

TmpTaken(f, p) == Exists(f, p)

\* create_dir_all, random_tmp_path, OpenOptions::create_new
CreateTmp(s) ==
    /\ call[s].pc = "create"
    /\ UNCHANGED overflow_checks
    /\ \/ /\ Fault
          /\ Finish(s, Err("io error"), <<>>)
          /\ UNCHANGED files
       \/ /\ NoFault
          /\ \E p \in RandomTmpPaths(files) :
                 IF TmpTaken(files, p)
                 THEN /\ Finish(s, Err("failed to create temporary file"), <<>>)
                      /\ UNCHANGED files
                 ELSE /\ files' = Put(files, p, <<>>)
                      /\ call' = [call EXCEPT ![s].pc = "write", ![s].tmp = p,
                                              ![s].steps = <<"create_new">>]
                      /\ UNCHANGED <<sess, pw>>
    /\ UNCHANGED <<now, rng, ops>>

\* write_all: the buffer reaches the file in one or two writes, or fails
WriteTmp(s) ==
    /\ call[s].pc = "write"
    /\ UNCHANGED overflow_checks
    /\ \/ /\ ~Holds(files, WritePath(call[s]),
                     SubSeq(call[s].data, 1, PartialLen(call[s].data)))
          /\ files' = Put(files, WritePath(call[s]),
                          SubSeq(call[s].data, 1, PartialLen(call[s].data)))
          /\ UNCHANGED <<call, sess, pw>>
          /\ NoFault
       \/ /\ files' = Put(files, WritePath(call[s]), call[s].data)
          /\ Step(s, "sync", "write_all")
          /\ NoFault
       \/ /\ Fault
          /\ Finish(s, Err("io error"), <<>>)
          /\ UNCHANGED files
    /\ UNCHANGED <<now, rng, ops>>

\* tmp_file.sync_all
SyncTmp(s) ==
    /\ call[s].pc = "sync"
    /\ UNCHANGED overflow_checks
    /\ \/ Step(s, "replace", "sync_all") /\ NoFault
       \/ Fault /\ Finish(s, Err("io error"), <<>>)
    /\ UNCHANGED <<files, now, rng, ops>>

\* the directory after a rename, and after a rename that failed
ReplaceFilesByCopy(f, tmp) ==
    Del(Put(f, Target, SubSeq(f[tmp], 1, PartialLen(f[tmp]))), tmp)

ReplaceFilesNoRename(f, tmp) == Del(f, tmp)

ReplaceFilesCopyKeepsTmp(f, tmp) == Put(f, Target, f[tmp])

ReplaceFiles(f, tmp) == Rename(f, tmp, Target)

ReplaceFailedKeepsTmp(f, tmp) == f

ReplaceFailedFiles(f, tmp) == Del(f, tmp)

\* after the rename save goes on to the directory barrier
ReplacedReturns(s) == Finish(s, Ok(<<>>), <<"rename">>)

Replaced(s) == Step(s, "syncdir", "rename")

\* atomic_replace, and the removal of the temp file when it fails
AtomicReplace(s) ==
    /\ call[s].pc = "replace"
    /\ UNCHANGED overflow_checks
    /\ \/ /\ Exists(files, call[s].tmp)
          /\ files' = ReplaceFiles(files, call[s].tmp)
          /\ Replaced(s)
          /\ NoFault
       \/ /\ Fault
          /\ files' = ReplaceFailedFiles(files, call[s].tmp)
          /\ Finish(s, Err("atomic replace failed"), <<>>)
    /\ UNCHANGED <<now, rng, ops>>

\* rekey after Storage::save returned Ok: self.key.zeroize()
KeyZeroized(s, done) ==
    /\ call' = [call EXCEPT ![s].pc = "swap", ![s].steps = call[s].steps \o done]
    /\ sess' = [sess EXCEPT ![s].key = Zeroize(sess[s].key)]
    /\ UNCHANGED pw

\* File::open(parent), dir.sync_all, and Ok(()): save returns and its
\* caller completes
SyncDir(s) ==
    /\ call[s].pc = "syncdir"
    /\ UNCHANGED overflow_checks
    /\ \/ /\ NoFault
          /\ IF call[s].op = "rekey"
             THEN KeyZeroized(s, <<"dir_sync_all">>)
             ELSE Finish(s, Ok(<<>>), <<"dir_sync_all">>)
       \/ Fault /\ Finish(s, Err("io error"), <<>>)
    /\ UNCHANGED <<files, now, rng, ops>>

\* rekey: self.key = new_key, Ok(())
RekeySwap(s) ==
    /\ call[s].pc = "swap"
    /\ UNCHANGED overflow_checks
    /\ Finish(s, Ok(<<>>), <<>>)
    /\ UNCHANGED <<files, now, rng, ops, faults>>

(***************************************************************************)
(* The end of a session: the value is dropped, or the process stops.       *)
(***************************************************************************)
\* Drop for Keynest: the key is zeroized
Drop(s) ==
    /\ sess[s].status = "open"
    /\ UNCHANGED overflow_checks
    /\ AtRest(call[s])
    /\ sess' = [sess EXCEPT ![s] =
           [NoSession EXCEPT !.status = "dropped", !.key = Zeroize(sess[s].key)]]
    /\ call' = [call EXCEPT ![s] = IdleCall]
    /\ pw' = [pw EXCEPT ![s] = 0]
    /\ UNCHANGED <<files, now, rng, ops, faults>>

\* The process stops: memory is gone, the directory stays as it is.
Crash(s) ==
    /\ InStorageSave(call[s])
    /\ UNCHANGED overflow_checks
    /\ Fault
    /\ sess' = [sess EXCEPT ![s] = NoSession]
    /\ call' = [call EXCEPT ![s].pc = "crashed", ![s].next = NoSession,
                            ![s].snap = NoSession]
    /\ pw' = [pw EXCEPT ![s] = 0]
    /\ UNCHANGED <<files, now, rng, ops>>

Calls(s) ==
    \/ \E password \in Passwords, kdf \in KdfArgs : InitCall(s, password, kdf)
    \/ \E password \in Passwords : OpenCall(s, password)
    \/ \E key \in SecretKeys, value \in SecretValues : SetCall(s, key, value)
    \/ \E key \in SecretKeys, value \in SecretValues : UpdateCall(s, key, value)
    \/ \E key \in SecretKeys : RemoveCall(s, key)
    \/ \E key \in SecretKeys : GetCall(s, key)
    \/ ListCall(s)
    \/ SaveCall(s)
    \/ \E password \in Passwords, kdf \in KdfArgs : RekeyCall(s, password, kdf)

StorageSteps(s) ==
    \/ CreateTmp(s)
    \/ WriteTmp(s)
    \/ SyncTmp(s)
    \/ AtomicReplace(s)
    \/ SyncDir(s)
    \/ RekeySwap(s)

\* One session, one writer.
Next ==
    \/ Calls("A")
    \/ StorageSteps("A")
    \/ Drop("A")
    \/ Crash("A")

Spec == Init /\ [][Next]_vars

(***************************************************************************)
(* The keystore file read back with one byte changed (a failing disk, or   *)
(* somebody who can write the file but does not know the password), while  *)
(* no session has it open.                                                 *)
(***************************************************************************)
TamperedAt(data, pos) == [data EXCEPT ![pos] = (data[pos] + 1) % 256]

\* one offset in the magic, the version and the memory cost, the first and
\* the last byte of the salt, of the nonce and of the ciphertext
TamperOffsets(data) ==
    {1, MAGIC_LEN + 1, MAGIC_LEN + VER_LEN + 1,
     HEADER_LEN - NONCE_LEN - SALT_LEN + 1, HEADER_LEN - NONCE_LEN,
     HEADER_LEN - NONCE_LEN + 1, HEADER_LEN, HEADER_LEN + 1, Len(data)}
        \cap DOMAIN data

Tamper ==
    /\ Exists(files, Target)
    /\ UNCHANGED overflow_checks
    /\ \A s \in Sessions : sess[s].status # "open" /\ ~InStorageSave(call[s])
    /\ Fault
    /\ \E pos \in TamperOffsets(files[Target]) :
           files' = Put(files, Target, TamperedAt(files[Target], pos))
    /\ UNCHANGED <<now, rng, sess, call, pw, ops>>

NextTamper ==
    \/ Next
    \/ Tamper

SpecTamper == Init /\ [][NextTamper]_vars

(***************************************************************************)
(* Two sessions on one file: one has created it with init, the other has   *)
(* opened it with the same password; both change their stores and save.    *)
(***************************************************************************)
FirstInit(password) ==
    KeynestInit(password, KdfDefault, 1, Ok(RandomAt(0, SALT_LEN, 1)),
                Ok(RandomAt(0, NONCE_LEN, 2)))

InitTwo ==
    \E password \in {1} :
        /\ overflow_checks \in BOOLEAN
        /\ \E first \in {FirstInit(password)} :
               /\ files = [p \in {Target} |-> first.res.val]
               /\ \E second \in {OpenLoaded(first.res.val, password)} :
                      sess = [s \in Sessions |->
                                 IF s = "A" THEN first.next ELSE second.val]
        /\ now = 1
        /\ rng = 2
        /\ call = [s \in Sessions |-> IdleCall]
        /\ pw = [s \in Sessions |-> password]
        /\ ops = 0
        /\ faults = 0

NextTwo ==
    \E s \in Sessions :
        \/ \E key \in SecretKeys, value \in SecretValues : SetCall(s, key, value)
        \/ \E key \in SecretKeys, value \in SecretValues : UpdateCall(s, key, value)
        \/ \E key \in SecretKeys : RemoveCall(s, key)
        \/ SaveCall(s)
        \/ CreateTmp(s)
        \/ WriteTmp(s)
        \/ SyncTmp(s)
        \/ AtomicReplace(s)
        \/ SyncDir(s)

SpecTwo == InitTwo /\ [][NextTwo]_vars

(***************************************************************************)
(* Properties.                                                             *)
(***************************************************************************)
SavingOps == {"init", "save", "rekey"}

Range(q) == {q[i] : i \in DOMAIN q}

\* the target as Storage::save found it when it was called
TargetAsBefore(c) ==
    /\ Exists(files, Target) = c.preExists
    /\ c.preExists => files[Target] = c.pre

SaveReturnedOk(c) == c.pc = "done" /\ c.res = "ok" /\ c.op \in SavingOps

SameSecrets(a, b) == \A k \in SecretKeys : StoreGet(a, k) = StoreGet(b, k)

\* C1: when the process stops at any step of Storage::save on a path that
\* held a complete file, load returns exactly the previous bytes or exactly
\* the new bytes.
C1_CrashLeavesOldOrNew ==
    \A s \in Sessions :
        (call[s].pc = "crashed" /\ call[s].preExists) =>
            /\ Load(files).ok
            /\ Load(files).val \in {call[s].pre, call[s].data}

\* the process stopped while the temp file held half of the new buffer
C1_Witness ==
    \E s \in Sessions :
        /\ call[s].pc = "crashed" /\ call[s].preExists
        /\ call[s].tmp \in DOMAIN files
        /\ files[call[s].tmp] = SubSeq(call[s].data, 1, PartialLen(call[s].data))
        /\ call[s].data # call[s].pre

\* C2: until the replace step has run (temp file written and fsynced), in a
\* running save and after a stop of the process, the target is as it was
\* before the call.
C2_TargetUntouchedBeforeReplace ==
    \A s \in Sessions :
        ((InStorageSave(call[s]) \/ call[s].pc = "crashed")
            /\ "rename" \notin Range(call[s].steps)) => TargetAsBefore(call[s])

\* the temp file is written and fsynced, the replace has not run
C2_Witness ==
    \E s \in Sessions :
        /\ call[s].pc = "replace" /\ call[s].preExists
        /\ files[call[s].tmp] = call[s].data
        /\ call[s].data # call[s].pre
        /\ files[Target] = call[s].pre

\* C3: when a save has returned success, load returns exactly the bytes
\* passed to it, and the file exists, whether or not it existed before.
C3_LoadReturnsLastSaved ==
    \A s \in Sessions :
        SaveReturnedOk(call[s]) =>
            /\ Exists(files, Target)
            /\ Load(files) = Ok(call[s].data)

\* a successful save over a file that another successful save had written
C3_Witness ==
    \E s \in Sessions :
        /\ SaveReturnedOk(call[s]) /\ call[s].op = "save"
        /\ call[s].preExists /\ call[s].pre # call[s].data
        /\ Load(files) = Ok(call[s].data)

C5_SuccessAfterDirectoryBarrier ==
    \A s \in Sessions :
        SaveReturnedOk(call[s]) =>
            call[s].steps =
                <<"create_new", "write_all", "sync_all", "rename", "dir_sync_all">>

C5_Witness ==
    \E s \in Sessions :
        /\ SaveReturnedOk(call[s]) /\ call[s].op = "rekey"
        /\ "dir_sync_all" \in Range(call[s].steps)

\* C6: when rekey returns an error, the key, the salt and the KDF
\* parameters of the session are the ones it had before the call.
C6_FailedRekeyKeepsState ==
    \A s \in Sessions :
        (call[s].pc = "done" /\ call[s].op = "rekey" /\ call[s].res = "err") =>
            /\ sess[s].key = call[s].snap.key
            /\ sess[s].keystore_file.salt = call[s].snap.keystore_file.salt
            /\ sess[s].keystore_file.kdf = call[s].snap.keystore_file.kdf

\* C7: after a successful rekey to a password other than the old one, open
\* with the old password fails, open with the new one succeeds, and every
\* secret of the session's store is read back with the same value.
C7_RekeyChangesPassword ==
    \A s \in Sessions :
        (SaveReturnedOk(call[s]) /\ call[s].op = "rekey"
            /\ call[s].password # call[s].oldpw) =>
            /\ ~OpenWithStorage(files, call[s].oldpw).ok
            /\ OpenWithStorage(files, call[s].password).ok
            /\ SameSecrets(OpenWithStorage(files, call[s].password).val.store,
                           call[s].snap.store)

C7_Witness ==
    \E s \in Sessions :
        /\ SaveReturnedOk(call[s]) /\ call[s].op = "rekey"
        /\ call[s].password # call[s].oldpw
        /\ \E k \in SecretKeys : StoreContains(call[s].snap.store, k)
        /\ sess[s].store = call[s].snap.store

\* C8: after a successful rekey the header on disk carries the new KDF
\* parameters, a fresh open reports them, and the password given to rekey
\* opens the file, also when it is the previous password.
C8_RekeyWritesNewKdf ==
    \A s \in Sessions :
        (SaveReturnedOk(call[s]) /\ call[s].op = "rekey") =>
            /\ Parse(files[Target]).ok
            /\ Parse(files[Target]).val.kdf = call[s].kdf
            /\ OpenWithStorage(files, call[s].password).ok
            /\ OpenWithStorage(files, call[s].password).val.keystore_file.kdf
                   = call[s].kdf

C8_Witness ==
    \E s \in Sessions :
        /\ SaveReturnedOk(call[s]) /\ call[s].op = "rekey"
        /\ call[s].password = call[s].oldpw
        /\ call[s].kdf # call[s].snap.keystore_file.kdf

\* C9: after a successful save, the file opens with the session's password
\* and get returns, for every key, what it returns in the saving session.
C9_SaveThenOpenRoundTrip ==
    \A s \in Sessions :
        (SaveReturnedOk(call[s]) /\ call[s].op = "save") =>
            /\ OpenWithStorage(files, pw[s]).ok
            /\ SameSecrets(OpenWithStorage(files, pw[s]).val.store, sess[s].store)

StoreCall(s) ==
    \/ \E key \in SecretKeys, value \in SecretValues : SetCall(s, key, value)
    \/ \E key \in SecretKeys, value \in SecretValues : UpdateCall(s, key, value)
    \/ \E key \in SecretKeys : RemoveCall(s, key)
    \/ \E key \in SecretKeys : GetCall(s, key)
    \/ ListCall(s)

\* C10: set, update, remove, get and list leave every file of the
\* directory as it is.
C10_StoreCallsLeaveFile ==
    [][(\E s \in Sessions : StoreCall(s)) => files' = files]_vars

\* secrets were changed in memory and the file still holds the saved store
C10_Witness ==
    \E s \in Sessions :
        /\ call[s].pc = "done" /\ call[s].op \in {"set", "update", "remove"}
        /\ call[s].res = "ok"
        /\ OpenWithStorage(files, pw[s]).ok
        /\ ~SameSecrets(OpenWithStorage(files, pw[s]).val.store, sess[s].store)


\* C11: init on a path where a file exists returns the already-exists
\* error; the directory is as before, no random bytes are drawn (no salt),
\* no key is derived and no session is built.
C11_InitOnExistingFileRefused ==
    [][\A s \in Sessions :
          (Exists(files, Target) /\
              \E password \in Passwords, kdf \in KdfArgs : InitCall(s, password, kdf))
          => /\ call'[s].res = "err"
             /\ call'[s].err = "keynest store already exists"
             /\ call'[s].derived = <<>>
             /\ sess'[s] = NoSession
             /\ files' = files
             /\ rng' = rng]_vars

C11_Witness ==
    \E s \in Sessions :
        /\ call[s].pc = "done" /\ call[s].op = "init"
        /\ call[s].err = "keynest store already exists"
        /\ Exists(files, Target)
        /\ OpenWithStorage(files, 1).ok \/ OpenWithStorage(files, 2).ok


\* C12: open on a path where no file exists returns the does-not-exist
\* error, whatever the password, builds no session and leaves the directory
\* without a file at that path.
C12_OpenWithoutFileRefused ==
    [][\A s \in Sessions, password \in Passwords :
          (~Exists(files, Target) /\ OpenCall(s, password))
          => /\ call'[s].res = "err"
             /\ call'[s].err = "keynest store does not exist"
             /\ sess'[s].status # "open"
             /\ files' = files
             /\ ~Exists(files', Target)]_vars

\* open has returned the error, once with each password
C12_Witness ==
    \E s \in Sessions :
        /\ call[s].pc = "done" /\ call[s].op = "open"
        /\ call[s].err = "keynest store does not exist"
        /\ call[s].password = 2
        /\ ~Exists(files, Target)
        /\ ops > 1


\* C13: after a successful init(password, kdf) where no file was, the file
\* exists and is at least 57 bytes long, its header carries kdf, and open
\* with the password succeeds and gives a store without secrets.
C13_InitCreatesOpenableFile ==
    \A s \in Sessions :
        (SaveReturnedOk(call[s]) /\ call[s].op = "init" /\ ~call[s].preExists) =>
            /\ Exists(files, Target)
            /\ Len(files[Target]) >= 57
            /\ Parse(files[Target]).ok
            /\ Parse(files[Target]).val.kdf = call[s].kdf
            /\ OpenWithStorage(files, call[s].password).ok
            /\ DOMAIN OpenWithStorage(files, call[s].password).val.store.secrets = {}
            /\ sess[s].status = "open"

C13_Witness ==
    \E s \in Sessions :
        /\ SaveReturnedOk(call[s]) /\ call[s].op = "init" /\ ~call[s].preExists
        /\ call[s].kdf = KdfUpgraded
        /\ Len(files[Target]) > HEADER_LEN


\* the file would open with the password if one byte of its salt, nonce or
\* ciphertext were put back; the file opens with another password
RestoredAt(data, pos) == [data EXCEPT ![pos] = (data[pos] + 255) % 256]

OpensWhenRestored(password) ==
    \E pos \in (HEADER_LEN - NONCE_LEN - SALT_LEN + 1)..Len(files[Target]) :
        OpenLoaded(RestoredAt(files[Target], pos), password).ok

OpensWithOther(password) ==
    \E other \in Passwords \ {password} : OpenWithStorage(files, other).ok

MergedError == "Invalid password or corrupted data"

\* C14: open with a wrong password, and open of a file in which a byte of
\* the salt, the nonce or the ciphertext was altered, both fail with one
\* and the same error.
C14_WrongPasswordAndCorruptionAlike ==
    \A s \in Sessions :
        (call[s].pc = "done" /\ call[s].op = "open" /\ Exists(files, Target)
            /\ (OpensWithOther(call[s].password)
                    \/ OpensWhenRestored(call[s].password))) =>
            /\ call[s].res = "err"
            /\ call[s].err = MergedError

\* open with the right password failed on a file with an altered byte
C14_Witness ==
    \E s \in Sessions :
        /\ call[s].pc = "done" /\ call[s].op = "open" /\ Exists(files, Target)
        /\ OpensWhenRestored(call[s].password)
        /\ call[s].err = MergedError


\* C15: a successful save writes a header with the salt and the KDF
\* parameters of the session's header before the call; the nonce and the
\* ciphertext are new, and the key of the session is the one it had.
C15_SaveKeepsSaltAndKdf ==
    \A s \in Sessions :
        (SaveReturnedOk(call[s]) /\ call[s].op = "save") =>
            /\ Parse(files[Target]).ok
            /\ Parse(files[Target]).val.salt = call[s].snap.keystore_file.salt
            /\ Parse(files[Target]).val.kdf = call[s].snap.keystore_file.kdf
            /\ Parse(files[Target]).val.version = call[s].snap.keystore_file.version
            /\ Parse(files[Target]).val.nonce # call[s].snap.keystore_file.nonce
            /\ Parse(files[Target]).val.ciphertext # call[s].snap.keystore_file.ciphertext
            /\ sess[s].key = call[s].snap.key
            /\ sess[s].keystore_file = Parse(files[Target]).val

\* a save of a session whose header carries upgraded costs
C15_Witness ==
    \E s \in Sessions :
        /\ SaveReturnedOk(call[s]) /\ call[s].op = "save"
        /\ call[s].snap.keystore_file.kdf = KdfUpgraded
        /\ Parse(files[Target]).val.kdf = KdfUpgraded


\* C16: in a session, the encryptions done under its key (by init or the
\* file it was opened from, by every save, by a successful rekey) all have
\* different nonces, and the header that save or rekey hands to the
\* storage never carries the nonce of the header the session had.
C16_NoNonceReuse ==
    \A s \in Sessions :
        sess[s].status = "open" =>
            /\ \A i, j \in DOMAIN sess[s].nonces :
                   i # j => sess[s].nonces[i] # sess[s].nonces[j]
            /\ (call[s].op \in {"save", "rekey"} /\ call[s].data # <<>>) =>
                   Parse(call[s].data).val.nonce # call[s].snap.keystore_file.nonce

\* init and two saves: three encryptions under one key
C16_Witness ==
    \E s \in Sessions :
        /\ sess[s].status = "open"
        /\ Len(sess[s].nonces) >= 3
        /\ call[s].pc = "done" /\ call[s].op = "save" /\ call[s].res = "ok"


\* C17: the key buffer of a dropped session holds zeros only; in a
\* successful rekey the buffer holds zeros (the old key is wiped) before the
\* new key is stored in it, and holds the new key when rekey returns.
C17_KeyWipedOnDropAndRekey ==
    \A s \in Sessions :
        /\ sess[s].status = "dropped" => sess[s].key = Zeros(KEY_LEN)
        /\ call[s].pc = "swap" =>
               /\ sess[s].key = Zeros(KEY_LEN)
               /\ call[s].next.key = call[s].derived
        /\ (SaveReturnedOk(call[s]) /\ call[s].op = "rekey") =>
               sess[s].key = call[s].derived

\* rekey has wiped the old key and not yet stored the new one
C17_Witness ==
    \E s \in Sessions :
        /\ call[s].pc = "swap"
        /\ call[s].snap.key # Zeros(KEY_LEN)
        /\ Len(call[s].snap.key) = KEY_LEN
        /\ sess[s].key = Zeros(KEY_LEN)


\* C18: when open, init or rekey returns an error after it has derived a
\* key, the buffer of the derived key holds zeros only.
C18_DerivedKeyWipedOnError ==
    \A s \in Sessions :
        (call[s].pc = "done" /\ call[s].res = "err"
            /\ call[s].op \in {"open", "init", "rekey"}) =>
            call[s].derived \in {<<>>, Zeros(KEY_LEN)}


\* the replace step of session s has run
ReplaceRan(s) == call[s].pc = "replace" /\ call'[s].pc = "syncdir"

\* C19: with two sessions on one file, the file changes only in the replace
\* step of a save, and after the replace step of a session it is exactly
\* the complete file of that session: it opens with that session's password
\* to exactly that session's store.  So after both have saved, the file is
\* the one of the session that replaced last, without the other's changes.
C19_LastWriterWins ==
    [][/\ \A s \in Sessions :
             ReplaceRan(s) =>
                 /\ files'[Target] = call[s].data
                 /\ OpenWithStorage(files', pw[s]).ok
                 /\ OpenWithStorage(files', pw[s]).val.store = sess[s].store
       /\ files'[Target] # files[Target] => \E s \in Sessions : ReplaceRan(s)]_vars

\* both sessions have saved; the file is the one of the second, and a
\* secret the first one had set and saved is not in it
C19_Witness ==
    \E s, t \in Sessions :
        /\ s # t
        /\ SaveReturnedOk(call[s]) /\ SaveReturnedOk(call[t])
        /\ call[s].data # call[t].data
        /\ files[Target] = call[t].data
        /\ \E k \in SecretKeys :
               /\ StoreContains(sess[s].store, k)
               /\ StoreContains(OpenLoaded(call[s].data, pw[s]).val.store, k)
               /\ ~StoreContains(OpenWithStorage(files, pw[t]).val.store, k)


\* Triples accepted by KdfParams::new, the smallest one, and ones whose
\* four bytes differ from each other and between the three costs.  (The
\* costs are u32; the largest one here is 2^31 - 1.)
RoundTripKdfs ==
    {KdfDefault, KdfUpgraded, KdfTooManyLanes,
     [mem_cost_kib |-> 8, time_cost |-> 1, parallelism |-> 1],
     [mem_cost_kib |-> 2147483647, time_cost |-> 16909060, parallelism |-> 513],
     [mem_cost_kib |-> 67305985, time_cost |-> 2147483647, parallelism |-> 255]}

\* parse(serialize(file)) gives the file back, having read a header of
\* HEADER_LEN bytes and taken all that follows as the ciphertext
RoundTrips(file) ==
    LET bytes == Serialize(file)
        back == Parse(bytes.val)
    IN /\ bytes.ok
       /\ back.ok
       /\ back.val.version = file.version
       /\ back.val.kdf = file.kdf
       /\ back.val.salt = file.salt
       /\ back.val.nonce = file.nonce
       /\ back.val.ciphertext = file.ciphertext
       /\ Len(bytes.val) = HEADER_LEN + Len(file.ciphertext)
       /\ back.val.ciphertext = SubSeq(bytes.val, HEADER_LEN + 1, Len(bytes.val))

\* C20: for every valid KDF triple, every salt of 16 bytes, nonce of 24
\* bytes and ciphertext (the empty one too), parsing the serialized file
\* returns the same version, KDF, salt, nonce and ciphertext; the header
\* takes exactly 57 bytes and the ciphertext is all the rest.
C20_ParseInvertsSerialize ==
    \A s \in Sessions :
        sess[s].status = "open" =>
            LET file == sess[s].keystore_file
            IN /\ Len(file.salt) = SALT_LEN /\ Len(file.nonce) = NONCE_LEN
               /\ \A kdf \in RoundTripKdfs \cup {file.kdf} :
                      \A ciphertext \in {file.ciphertext, <<>>} :
                          /\ KdfParamsNew(kdf.mem_cost_kib, kdf.time_cost,
                                          kdf.parallelism).ok
                          /\ RoundTrips(KeystoreFileNew(kdf, file.salt,
                                                        file.nonce, ciphertext))

\* a session whose header carries the upgraded KDF and the ciphertext of a
\* store with a secret; the header is the one the file on disk parses to
C20_Witness ==
    \E s \in Sessions :
        /\ sess[s].status = "open"
        /\ sess[s].keystore_file.kdf = KdfUpgraded
        /\ Len(sess[s].keystore_file.ciphertext) > TAG_LEN
        /\ sess[s].store.secrets # NoSecrets
        /\ RoundTrips(sess[s].keystore_file)
        /\ Exists(files, Target)
        /\ files[Target] = Serialize(sess[s].keystore_file).val
        /\ Parse(files[Target]).val = sess[s].keystore_file


\* The layout of the first 57 bytes (offsets of the file format count from
\* 0, positions of a sequence from 1): "KNST", the version byte 1, the
\* three costs with the least significant byte first, the salt, the nonce.
LaidOut(bytes, kdf, salt, nonce) ==
    /\ Len(bytes) >= 57
    /\ SubSeq(bytes, 1, 4) = <<75, 78, 83, 84>>
    /\ bytes[5] = 1
    /\ \A i \in 0..3 :
           /\ bytes[6 + i] = (kdf.mem_cost_kib \div 256^i) % 256
           /\ bytes[10 + i] = (kdf.time_cost \div 256^i) % 256
           /\ bytes[14 + i] = (kdf.parallelism \div 256^i) % 256
    /\ SubSeq(bytes, 18, 33) = salt
    /\ SubSeq(bytes, 34, 57) = nonce

\* C21: the serialized file is "KNST", version 1, the three costs as
\* little-endian u32 at bytes 5-8, 9-12 and 13-16, the salt at 17-32, the
\* nonce at 33-56 and the ciphertext from byte 57 on; the header, also
\* when written alone, is exactly 57 bytes.
C21_FileLayout ==
    \A s \in Sessions :
        sess[s].status = "open" =>
            LET file == sess[s].keystore_file
            IN \A kdf \in RoundTripKdfs \cup {file.kdf} :
                   \A ciphertext \in {file.ciphertext, <<>>} :
                       LET bytes == Serialize(KeystoreFileNew(kdf, file.salt,
                                        file.nonce, ciphertext)).val
                           header == HeaderToBytes(HeaderNew(kdf, file.salt,
                                        file.nonce).val)
                       IN /\ LaidOut(bytes, kdf, file.salt, file.nonce)
                          /\ Len(bytes) = 57 + Len(ciphertext)
                          /\ SubSeq(bytes, 58, Len(bytes)) = ciphertext
                          /\ LaidOut(header, kdf, file.salt, file.nonce)
                          /\ Len(header) = 57
                          /\ HEADER_LEN = 57 /\ Header_LEN = 57

\* a rekey has written a file with the upgraded KDF; the file on disk has
\* the layout, with the costs 131072, 4, 1 in the twelve bytes after the
\* version
C21_Witness ==
    \E s \in Sessions :
        /\ sess[s].status = "open"
        /\ call[s].pc = "done" /\ call[s].op = "rekey" /\ call[s].res = "ok"
        /\ Exists(files, Target)
        /\ LaidOut(files[Target], KdfUpgraded, sess[s].keystore_file.salt,
                   sess[s].keystore_file.nonce)
        /\ SubSeq(files[Target], 6, 17) = <<0, 0, 2, 0, 4, 0, 0, 0, 1, 0, 0, 0>>


(***************************************************************************)
(* Files that keynest did not write: a keystore file cut short, with       *)
(* another magic, another version byte or other KDF costs, opened with     *)
(* open.  (A u32 is kept below 2^31 here.)                                 *)
(***************************************************************************)
ForeignKdfs ==
    {KdfDefault,
     [mem_cost_kib |-> 0, time_cost |-> 0, parallelism |-> 0],
     [mem_cost_kib |-> 7, time_cost |-> 1, parallelism |-> 1],
     [mem_cost_kib |-> 8, time_cost |-> 0, parallelism |-> 1],
     [mem_cost_kib |-> 8, time_cost |-> 1, parallelism |-> 0],
     [mem_cost_kib |-> 15, time_cost |-> 1, parallelism |-> 2],
     [mem_cost_kib |-> 16, time_cost |-> 1, parallelism |-> 2],
     [mem_cost_kib |-> 8, time_cost |-> 1, parallelism |-> Mul8Limit],
     [mem_cost_kib |-> 8, time_cost |-> 1, parallelism |-> Mul8Limit + 2],
     [mem_cost_kib |-> 2147483647, time_cost |-> 1, parallelism |-> Mul8Limit + 1]}

\* magic, version and costs of a file; the first is what keynest writes
ForeignHeaders ==
    {<<magic, version, kdf>> :
        magic \in {MAGIC, <<75, 78, 83, 85>>}, version \in {VERSION_V1, 2},
        kdf \in {KdfDefault}}
    \cup {<<MAGIC, VERSION_V1, kdf>> : kdf \in ForeignKdfs}

ForeignLengths(data) ==
    {0, 1, MAGIC_LEN - 1, MAGIC_LEN, MAGIC_LEN + VER_LEN, MAGIC_LEN + VER_LEN + 1,
     HEADER_LEN - NONCE_LEN - 1, HEADER_LEN - 1, HEADER_LEN, HEADER_LEN + 1,
     Len(data)}

ForeignFiles ==
    LET good == FirstInit(1).res.val
    IN {SubSeq(h[1] \o <<h[2]>> \o to_le_bytes(h[3].mem_cost_kib)
                  \o to_le_bytes(h[3].time_cost) \o to_le_bytes(h[3].parallelism)
                  \o SubSeq(good, MAGIC_LEN + VER_LEN + MEM_LEN + TIME_LEN
                                     + PAR_LEN + 1, Len(good)),
               1, n) :
           h \in ForeignHeaders, n \in ForeignLengths(good)}

InitForeign ==
    /\ files \in {[p \in {Target} |-> data] : data \in ForeignFiles}
    /\ now = 1
    /\ rng = 2
    /\ sess = [s \in Sessions |-> NoSession]
    /\ call = [s \in Sessions |-> IdleCall]
    /\ pw = [s \in Sessions |-> 0]
    /\ ops = 0
    /\ faults = 0
    /\ overflow_checks \in BOOLEAN

NextForeign ==
    \/ \E password \in Passwords : OpenCall("A", password)
    \/ Drop("A")

SpecForeign == InitForeign /\ [][NextForeign]_vars

TooShortErrors == {"file too short", "file too short for v1"}

\* C22: a buffer shorter than 57 bytes fails to parse with the too-short
\* error whatever it holds; the bad-magic error is given only for buffers
\* of 57 bytes or more, the unsupported-version error only when the magic
\* matches.
C22_ShortBufferIsTooShort ==
    Exists(files, Target) =>
        LET data == files[Target]
            r == Parse(data)
        IN /\ Len(data) < 57 => ~r.ok /\ r.err \in TooShortErrors
           /\ r.err = "invalid magic" => Len(data) >= 57
           /\ r.err = "unsupported version" =>
                  Len(data) >= 57 /\ SubSeq(data, 1, MAGIC_LEN) = MAGIC


\* C23: for every buffer, parse returns a parsed file or an error: it reads
\* no index at or beyond the length of the buffer and it never aborts, not
\* by an arithmetic overflow while it validates the decoded KDF costs
\* either.  The same holds of open, which parses what it has loaded.
C23_ParseNeverAborts ==
    /\ Exists(files, Target) =>
           LET r == Parse(files[Target])
           IN /\ ~Panicked(r)
              /\ r.ok => Len(files[Target]) >= HEADER_LEN
    /\ \A s \in Sessions :
           call[s].pc = "done" /\ call[s].op = "open" =>
               call[s].err # PanicOverflow


\* m >= 8, t >= 1, p >= 1 and m >= 8 * p, the last with the product of
\* the integers (m >= 8 * p exactly when m \div 8 >= p)
CostsValid(m, t, p) == m >= 8 /\ t >= 1 /\ p >= 1 /\ m \div 8 >= p

\* C24: KdfParams::new(m, t, p) succeeds exactly when m >= 8, t >= 1,
\* p >= 1 and m >= 8 * p, with 8 * p the product of the integers and not
\* its remainder modulo 2^32; so the costs of every parsed header and of
\* every session satisfy the four inequalities.
C24_KdfParamsNewExact ==
    /\ Exists(files, Target) /\ Len(files[Target]) >= HEADER_LEN - NONCE_LEN - SALT_LEN =>
           LET data == files[Target]
               m == from_le_bytes(SubSeq(data, 6, 9))
               t == from_le_bytes(SubSeq(data, 10, 13))
               p == from_le_bytes(SubSeq(data, 14, 17))
               file == Parse(data)
           IN /\ KdfParamsNew(m, t, p).ok <=> CostsValid(m, t, p)
              /\ file.ok => CostsValid(file.val.kdf.mem_cost_kib,
                                       file.val.kdf.time_cost,
                                       file.val.kdf.parallelism)
    /\ \A s \in Sessions :
           sess[s].status = "open" =>
               CostsValid(sess[s].keystore_file.kdf.mem_cost_kib,
                          sess[s].keystore_file.kdf.time_cost,
                          sess[s].keystore_file.kdf.parallelism)


\* the errors of format::parse
FormatErrors ==
    TooShortErrors \cup
    {"invalid magic", "unsupported version", "argon2 memory cost too low",
     "argon2 time cost must be >= 1", "argon2 parallelism must be >= 1",
     "argon2 memory cost must be at least 8 * parallelism"}

\* too short, another magic, another version, or costs that are not valid
Malformed(data) ==
    \/ Len(data) < 57
    \/ SubSeq(data, 1, 4) # <<75, 78, 83, 84>>
    \/ data[5] # 1
    \/ ~CostsValid(from_le_bytes(SubSeq(data, 6, 9)),
                   from_le_bytes(SubSeq(data, 10, 13)),
                   from_le_bytes(SubSeq(data, 14, 17)))

\* C25: open returns every format error (too short, bad magic, unsupported
\* version, invalid KDF costs) before it derives a key or decrypts, and as
\* an error other than the one of a wrong password or corrupted data.
C25_FormatErrorsBeforeDerivation ==
    \A s \in Sessions :
        (/\ call[s].pc = "done" /\ call[s].op = "open"
         /\ Exists(files, Target) /\ Malformed(files[Target])) =>
            /\ call[s].res = "err"
            /\ call[s].err \in FormatErrors
            /\ call[s].err # MergedError
            /\ call[s].derived = <<>>
            /\ sess[s].status # "open"


\* C26: set(k, v2) on a store that contains k fails with
\* KeyAlreadyExists(k) and leaves the store as it was: get(k) returns the
\* earlier value, the entry's timestamp and all other entries are the same.
C26_SetExistingKeyFails ==
    [][\A s \in Sessions, key \in SecretKeys, value \in SecretValues :
           (SetCall(s, key, value) /\ StoreContains(sess[s].store, key)) =>
               /\ call'[s].res = "err"
               /\ call'[s].err = "KeyAlreadyExists" /\ call'[s].val = <<key>>
               /\ StoreGet(sess'[s].store, key) = StoreGet(sess[s].store, key)
               /\ sess'[s].store.secrets[key].updated
                      = sess[s].store.secrets[key].updated
               /\ sess'[s].store = sess[s].store]_vars

\* set has just failed on the key of the one entry of the store, which
\* holds the value and the time of the first set
C26_Witness ==
    \E s \in Sessions, key \in SecretKeys :
        /\ call[s].pc = "done" /\ call[s].op = "set"
        /\ call[s].res = "err" /\ call[s].err = "KeyAlreadyExists"
        /\ call[s].val = <<key>>
        /\ StoreContains(sess[s].store, key)
        /\ DOMAIN sess[s].store.secrets = {key}
        /\ sess[s].store.secrets[key].updated = now
        /\ StoreGet(sess[s].store, key) # <<>>

\* C27: update(k, v) and remove(k) on a store that does not contain k fail
\* with KeyNotFound(k) and leave the store as it was: no entry is created,
\* removed or changed.
C27_AbsentKeyNotFound ==
    [][\A s \in Sessions, key \in SecretKeys :
           /\ (/\ ~StoreContains(sess[s].store, key)
               /\ \E value \in SecretValues : UpdateCall(s, key, value)) =>
                   /\ call'[s].res = "err"
                   /\ call'[s].err = "KeyNotFound" /\ call'[s].val = <<key>>
                   /\ sess'[s].store = sess[s].store
           /\ (~StoreContains(sess[s].store, key) /\ RemoveCall(s, key)) =>
                   /\ call'[s].res = "err"
                   /\ call'[s].err = "KeyNotFound" /\ call'[s].val = <<key>>
                   /\ sess'[s].store = sess[s].store]_vars

\* update has just failed on a key that the store, which holds another
\* secret, does not hold
C27_Witness ==
    \E s \in Sessions, key \in SecretKeys :
        /\ call[s].pc = "done" /\ call[s].op \in {"update", "remove"}
        /\ call[s].res = "err" /\ call[s].err = "KeyNotFound"
        /\ call[s].val = <<key>>
        /\ ~StoreContains(sess[s].store, key)
        /\ sess[s].store.secrets # NoSecrets


\* some password opens the keystore file of directory f
Opens(f) == \E r \in {OpenWithStorage(f, p) : p \in Passwords} : r.ok

\* the creation date that the store in the keystore file of directory f
\* reports when the file is opened (with the password that opens it)
CreationDateOnDisk(f) ==
    LET opened == CHOOSE r \in {OpenWithStorage(f, p) : p \in Passwords} : r.ok
    IN opened.val.store.creation_date

\* C28: the creation date of the store is the time at which init has
\* constructed it.  No set, update, remove, save or rekey changes it, in
\* the session or in the file, and the store that open reads back from the
\* file reports it.
C28_CreationDateFixed ==
    [][/\ \A s \in Sessions :
             (sess[s].status = "open" /\ sess'[s].status = "open") =>
                 sess'[s].store.creation_date = sess[s].store.creation_date
       /\ ((files' # files \/ sess' # sess) /\ Opens(files')) =>
             /\ Opens(files) =>
                    CreationDateOnDisk(files') = CreationDateOnDisk(files)
             /\ ~Exists(files, Target) =>
                    \E s \in Sessions :
                        /\ call[s].op = "init"
                        /\ call[s].next.store.creation_date >= 1
                        /\ CreationDateOnDisk(files')
                               = call[s].next.store.creation_date
             /\ \A s \in Sessions :
                    sess'[s].status = "open" =>
                        sess'[s].store.creation_date = CreationDateOnDisk(files')]_vars

\* after init and one more call the session was dropped and the file
\* opened again: the store reports the date of its creation
C28_Witness ==
    \E s \in Sessions :
        /\ call[s].pc = "done" /\ call[s].op = "open" /\ call[s].res = "ok"
        /\ sess[s].status = "open"
        /\ ops = 3
        /\ sess[s].store.creation_date >= 1
        /\ sess[s].store.creation_date = CreationDateOnDisk(files)


\* C29: when the temp name that Storage::save has chosen exists already,
\* save returns an error at once: it does not write to the file of that
\* name or to the target, and it does not go on with another name.  So a
\* save only ever writes to a temp file that it has created itself.
C29_TempNameCollisionFails ==
    [][/\ \A s \in Sessions :
           /\ call[s].pc = "create" /\ call'[s].pc = "write" =>
                  /\ ~Exists(files, call'[s].tmp)
                  /\ files' = Put(files, call'[s].tmp, <<>>)
           /\ (/\ call[s].pc = "create" /\ call'[s].pc = "done"
               /\ call'[s].err = "failed to create temporary file") =>
                  /\ call'[s].res = "err"
                  /\ files' = files
                  /\ TmpPaths \cap DOMAIN files # {}
       /\ \A p \in TmpPaths \cap DOMAIN files :
             (\A s \in Sessions : InStorageSave(call[s]) => p # call[s].tmp) =>
                 p \in DOMAIN files' /\ files'[p] = files[p]]_vars

\* save has failed on a temp name left behind by an earlier save; the file
\* of that name and the target are there as before
C29_Witness ==
    \E s \in Sessions :
        /\ call[s].pc = "done" /\ call[s].op \in SavingOps
        /\ call[s].res = "err"
        /\ call[s].err = "failed to create temporary file"
        /\ call[s].steps = <<>>
        /\ TmpPaths \cap DOMAIN files # {}
        /\ TargetAsBefore(call[s])


\* C30: after a successful Storage::save the directory holds no temp file
\* created by that call; when every save so far has succeeded (nothing has
\* failed since the directory was empty), the directory holds exactly one
\* entry, the target.
C30_NoTempAfterSuccess ==
    \A s \in Sessions :
        SaveReturnedOk(call[s]) =>
            /\ call[s].tmp \in TmpPaths
            /\ ~Exists(files, call[s].tmp)
            /\ faults = 0 => DOMAIN files = {Target}

\* the second successful save in a directory that was empty at first: the
\* target is its only entry
C30_Witness ==
    \E s \in Sessions :
        /\ SaveReturnedOk(call[s]) /\ call[s].op = "save"
        /\ call[s].preExists
        /\ faults = 0
        /\ call[s].tmp \in TmpPaths
        /\ DOMAIN files = {Target}


(***************************************************************************)
(* main.rs: the command-line program.  Each run is one process: it parses  *)
(* its arguments, reads the password (KEYNEST_PASSWORD), opens or creates  *)
(* the store, runs the command, saves and exits.  Here the environment     *)
(* does not fail.                                                          *)
(***************************************************************************)
Commands == {"init", "set", "get", "update", "list", "remove", "info"}

\* Storage::save when none of its steps fails
StorageSaved(f, data) ==
    LET tmp == CHOOSE p \in RandomTmpPaths(f) : ~Exists(f, p)
    IN ReplaceFiles(Put(f, tmp, data), tmp)

\* main: the exit status with the output, and the directory afterwards
CliMain(arg, key, value, password, f, t) ==
    IF arg \notin Commands
    THEN [res |-> Err("error: unrecognized subcommand"), files |-> f]
    ELSE IF arg = "init"
    THEN IF InitRefused(f)
         THEN [res |-> Err("keynest store already exists"), files |-> f]
         ELSE LET prep == KeynestInit(password, KdfDefault, t,
                              Ok(Random(SALT_LEN, 1)), Ok(Random(NONCE_LEN, 2)))
              IN IF prep.res.ok
                 THEN [res |-> Ok(<<>>), files |-> StorageSaved(f, prep.res.val)]
                 ELSE [res |-> prep.res, files |-> f]
    ELSE LET kn == OpenWithStorage(f, password)
         IN IF ~kn.ok THEN [res |-> Err(kn.err), files |-> f]
            ELSE IF arg \in {"set", "update", "remove"}
            THEN LET r == IF arg = "set" THEN StoreSet(kn.val.store, key, value, t)
                          ELSE IF arg = "update"
                          THEN StoreUpdate(kn.val.store, key, value, t)
                          ELSE StoreRemove(kn.val.store, key)
                     prep == KeynestSave([kn.val EXCEPT !.store = r.store],
                                         Ok(Random(NONCE_LEN, 2)))
                 IN IF ~r.res.ok THEN [res |-> r.res, files |-> f]
                    ELSE [res |-> Ok(<<>>), files |-> StorageSaved(f, prep.res.val)]
            ELSE IF arg = "get"
            THEN [res |-> Ok(StoreGet(kn.val.store, key)), files |-> f]
            ELSE [res |-> Ok(<<>>), files |-> f]

\* one run; with the argument rekey the standard input holds the new
\* password and, equal to it, its confirmation
CliCall(s, arg, key, value, password, new_password) ==
    /\ ops < MaxOps
    /\ \E r \in {CliMain(arg, key, value, password, files, Clock)} :
           /\ files' = r.files
           /\ call' = [call EXCEPT ![s] =
                  [Returned(arg, NoSession, r.res) EXCEPT
                      !.password = IF arg = "rekey" THEN new_password ELSE password,
                      !.oldpw = IF arg = "rekey" THEN password ELSE 0,
                      !.preExists = Exists(files, Target),
                      !.pre = IF Exists(files, Target) THEN files[Target] ELSE <<>>]]
    /\ now' = Clock
    /\ rng' = rng + 2
    /\ ops' = ops + 1
    /\ UNCHANGED <<sess, pw, faults, overflow_checks>>

NextCli ==
    \E arg \in Commands \cup {"rekey"}, key \in SecretKeys, value \in SecretValues,
       password \in Passwords, new_password \in Passwords :
        CliCall("A", arg, key, value, password, new_password)

SpecCli == Init /\ [][NextCli]_vars

\* C31: the command-line program accepts the command rekey, which reads
\* the new password and its confirmation from the standard input.  When
\* they match (and the password given opens the store) the run succeeds;
\* afterwards the old password opens the store no more, and the new one
\* opens it, with the secrets that were stored.
C31_CliRekeyChangesPassword ==
    \A s \in Sessions :
        (/\ call[s].pc = "done" /\ call[s].op = "rekey"
         /\ call[s].preExists /\ OpenLoaded(call[s].pre, call[s].oldpw).ok) =>
            /\ call[s].res = "ok"
            /\ OpenWithStorage(files, call[s].password).ok
            /\ SameSecrets(OpenWithStorage(files, call[s].password).val.store,
                           OpenLoaded(call[s].pre, call[s].oldpw).val.store)
            /\ call[s].password # call[s].oldpw =>
                   ~OpenWithStorage(files, call[s].oldpw).ok


\* the buffer with the byte at pos replaced by another one
ChangedAt(data, pos, by) == [data EXCEPT ![pos] = (data[pos] + by) % 256]

ByteChanges == {1, 128, 255}

\* the positions of the ciphertext (offset 57 onward)
CiphertextRegion(data) == (HEADER_LEN + 1)..Len(data)

\* C32: open fails for every file obtained from a file that init, save or
\* rekey has written by changing one byte of the ciphertext region, also
\* with the correct password.
C32_ChangedCiphertextByteFailsOpen ==
    \A s \in Sessions :
        (SaveReturnedOk(call[s]) /\ Exists(files, Target)) =>
            \A pos \in CiphertextRegion(files[Target]), by \in ByteChanges,
               password \in Passwords :
                ~OpenLoaded(ChangedAt(files[Target], pos, by), password).ok

\* a save has written a file with a secret in it, which opens
C32_Witness ==
    \E s \in Sessions :
        /\ SaveReturnedOk(call[s]) /\ call[s].op = "save"
        /\ Exists(files, Target)
        /\ OpenWithStorage(files, pw[s]).ok
        /\ DOMAIN OpenWithStorage(files, pw[s]).val.store.secrets # {}


\* the partial map that a store stands for: what get returns for each key
PartialMap(store) == [k \in SecretKeys |-> StoreGet(store, k)]

StoreMutation(s) ==
    \/ \E key \in SecretKeys, value \in SecretValues : SetCall(s, key, value)
    \/ \E key \in SecretKeys, value \in SecretValues : UpdateCall(s, key, value)
    \/ \E key \in SecretKeys : RemoveCall(s, key)

\* C33: the store refines a partial map from keys to values.  A successful
\* set or update of k makes get(k) return its value, a successful remove
\* of k makes get(k) return nothing, and each of them leaves get of every
\* other key as it was; a failed one, and every other step, leaves get of
\* every key as it was.  Hence get(k) is the value of the last successful
\* set or update of k that no successful remove of k has followed.
C33_StoreRefinesPartialMap ==
    [][\A s \in Sessions :
           /\ \A key \in SecretKeys, value \in SecretValues :
                  (SetCall(s, key, value) \/ UpdateCall(s, key, value)) =>
                      PartialMap(sess'[s].store) =
                          IF call'[s].res = "ok"
                          THEN [PartialMap(sess[s].store) EXCEPT ![key] = <<value>>]
                          ELSE PartialMap(sess[s].store)
           /\ \A key \in SecretKeys :
                  RemoveCall(s, key) =>
                      PartialMap(sess'[s].store) =
                          IF call'[s].res = "ok"
                          THEN [PartialMap(sess[s].store) EXCEPT ![key] = <<>>]
                          ELSE PartialMap(sess[s].store)
           /\ ~StoreMutation(s) =>
                  PartialMap(sess'[s].store) = PartialMap(sess[s].store)]_vars

\* remove has just succeeded on one of the two keys that were set; get
\* returns nothing for it and the value set for the other
C33_Witness ==
    \E s \in Sessions, key \in SecretKeys, other \in SecretKeys :
        /\ call[s].pc = "done" /\ call[s].op = "remove" /\ call[s].res = "ok"
        /\ key # other
        /\ StoreGet(sess[s].store, key) = <<>>
        /\ StoreGet(sess[s].store, other) # <<>>


\* the store that the keystore file holds as Storage::save found it
StoreBefore(c) == OpenLoaded(c.pre, c.oldpw)

\* C34: a successful rekey writes the store that the session holds in
\* memory, with the changes of set, update and remove that no save has
\* written: a fresh open with the new password returns exactly the store
\* that the session held when rekey was called.
C34_RekeyWritesMemoryStore ==
    \A s \in Sessions :
        (SaveReturnedOk(call[s]) /\ call[s].op = "rekey") =>
            /\ OpenWithStorage(files, call[s].password).ok
            /\ OpenWithStorage(files, call[s].password).val.store
                   = call[s].snap.store
            /\ sess[s].store = call[s].snap.store

\* rekey has succeeded in a session that held a secret which the file
\* before did not hold
C34_Witness ==
    \E s \in Sessions :
        /\ SaveReturnedOk(call[s]) /\ call[s].op = "rekey"
        /\ call[s].preExists
        /\ StoreBefore(call[s]).ok
        /\ StoreBefore(call[s]).val.store.secrets = NoSecrets
        /\ call[s].snap.store.secrets # NoSecrets


\* the key that the password derives under the salt and the KDF parameters
\* of the header that session holds in memory
HeaderKey(session, password) ==
    derive_key(password, session.keystore_file.salt, session.keystore_file.kdf)

StorageSaveFailed(c) == c.pc = "done" /\ c.res = "err" /\ c.data # <<>>

\* C36: whenever Storage::save returns an error, at whatever step
\* (directory creation, temp creation, write, temp fsync, replace,
\* directory fsync), the target holds exactly the bytes it held before the
\* call.
C36_FailedSaveKeepsTarget ==
    \A s \in Sessions : StorageSaveFailed(call[s]) => TargetAsBefore(call[s])

\* C37: whenever Storage::save returns, with success or with an error at
\* a step after the creation of the temp file (write, temp fsync,
\* replace), the temp file that the call created is no more in the
\* directory.
C37_NoTempAfterReturn ==
    \A s \in Sessions :
        (call[s].pc = "done" /\ call[s].tmp # "") => ~Exists(files, call[s].tmp)


(***************************************************************************)
(* Two init calls on one path, in two processes or threads: each checks    *)
(* that no file exists, prepares its keystore file and runs Storage::save, *)
(* and the steps of the two interleave.                                    *)
(***************************************************************************)
NextInitRace ==
    \E s \in Sessions :
        \/ \E password \in Passwords : InitCall(s, password, KdfDefault)
        \/ CreateTmp(s)
        \/ WriteTmp(s)
        \/ SyncTmp(s)
        \/ AtomicReplace(s)
        \/ SyncDir(s)

SpecInitRace == Init /\ [][NextInitRace]_vars

InitSucceeded(c) == SaveReturnedOk(c) /\ c.op = "init"

\* C38: of two init calls on one path whose steps interleave at most one
\* returns success, and the replace step of an init never replaces a
\* keystore file that another init has created since the first one found
\* the path free.
C38_InterleavedInitsExclude ==
    [][/\ \A s \in Sessions :
              (call[s].op = "init" /\ AtomicReplace(s)
                  /\ "rename" \in Range(call'[s].steps)) => ~Exists(files, Target)
       /\ Cardinality({s \in Sessions : InitSucceeded(call'[s])}) <= 1]_vars


\* C39: for every buffer that parse accepts, serializing the parsed file
\* returns the buffer, byte for byte; the ciphertext of the parsed file
\* is exactly the bytes of the buffer from offset 57 to its end.
C39_SerializeInvertsParse ==
    \A data \in {files[p] : p \in DOMAIN files} :
        Parse(data).ok =>
            /\ Serialize(Parse(data).val).ok
            /\ Serialize(Parse(data).val).val = data
            /\ Parse(data).val.ciphertext = SubSeq(data, HEADER_LEN + 1, Len(data))

\* open has parsed a file that keynest has not written: costs other than
\* the default ones, one byte after the header
C39_Witness ==
    \E s \in Sessions :
        /\ call[s].pc = "done" /\ call[s].op = "open"
        /\ Exists(files, Target)
        /\ Parse(files[Target]).ok
        /\ Parse(files[Target]).val.kdf # KdfDefault
        /\ Len(files[Target]) = HEADER_LEN + 1

====
